---- MODULE Spec2Model ----
(***************************************************************************)
(* Model of podtailer.PodSetTailer (src/podtailer/podtailer.go): the       *)
(* control loop run(), Start(), Stop(), and the log path resolution        *)
(* determineLogPattern / determineFilterFunc / watcherForPod.              *)
(*                                                                         *)
(* Strings are sequences of tokens; fmt.Sprintf is concatenation of the    *)
(* pieces of its format string with its arguments.  The token "." is the   *)
(* one regular-expression metacharacter that names in the model contain.   *)
(***************************************************************************)
EXTENDS Integers, Sequences, FiniteSets, TLC

\* ------------------------------------------------------------------ bounds
MaxStarts == 2      \* calls of Start() on the instance
MaxStops == 2       \* calls of Stop() on the instance
MaxWatchers == 2    \* watchers constructed in a run

\* ------------------------------------------------------------ pod metadata
ConfigHashKey == "kubernetes.io/config.hash"

NoAnnotations == [k \in {} |-> <<>>]

\* An ordinary pod, and a static ("critical") pod carrying a config hash.
PodWeb ==
    [UID |-> <<"uid-1">>, Name |-> <<"web-1">>, Namespace |-> <<"default">>,
     Annotations |-> NoAnnotations]

PodCritical ==
    [UID |-> <<"uid-2">>, Name |-> <<"kube-proxy">>, Namespace |-> <<"kube-system">>,
     Annotations |-> [k \in {ConfigHashKey} |-> <<"abc123">>]]

Pods == {PodWeb, PodCritical}

UIDs == {p.UID : p \in Pods}

\* The directories under /var/log/pods the resolver can probe for these pods.
Dirs ==
    {<<"/var/log/pods/">> \o p.UID : p \in Pods}
    \cup {<<"/var/log/pods/">> \o p.Annotations[ConfigHashKey] :
            p \in {q \in Pods : ConfigHashKey \in DOMAIN q.Annotations}}

\* --------------------------------------------------------------- os.Stat
\* The error of os.Stat(path): nil for an existing path, otherwise an error;
\* a probe of a path in faulty fails although the path may exist.
Stat(fsys, faulty, path) ==
    IF path \in faulty THEN "EACCES"
    ELSE IF path \in fsys THEN "nil"
    ELSE "ENOENT"

\* ------------------------------------------------------ determineLogPattern
\* A resolver that takes the config hash first and never probes for it.
HashFirstLogPattern(pod, legacy, fsys, faulty) ==
    LET hasHash == ConfigHashKey \in DOMAIN pod.Annotations
        hpath == <<"/var/log/pods/">> \o pod.Annotations[ConfigHashKey]
        upath == <<"/var/log/pods/">> \o pod.UID
    IN  IF hasHash
        THEN [pattern |-> hpath \o <<"/*">>, err |-> "nil"]
        ELSE IF legacy
        THEN [pattern |-> <<"/var/log/containers/">> \o pod.Name \o <<"_">>
                           \o pod.Namespace \o <<"_*", ".", "log">>,
              err |-> "nil"]
        ELSE IF Stat(fsys, faulty, upath) = "nil"
        THEN [pattern |-> upath \o <<"/*">>, err |-> "nil"]
        ELSE [pattern |-> <<>>, err |-> "Could not find specified log path"]

\* Lines 121-147.
determineLogPattern(pod, legacy, fsys, faulty) ==
    LET hasHash == ConfigHashKey \in DOMAIN pod.Annotations
        hpath == <<"/var/log/pods/">> \o pod.Annotations[ConfigHashKey]
        upath == <<"/var/log/pods/">> \o pod.UID
    IN  IF legacy
        THEN [pattern |-> <<"/var/log/containers/">> \o pod.Name \o <<"_">>
                           \o pod.Namespace \o <<"_*", ".", "log">>,
              err |-> "nil"]
        ELSE IF hasHash /\ Stat(fsys, faulty, hpath) = "nil"
        THEN [pattern |-> hpath \o <<"/*">>, err |-> "nil"]
        ELSE IF Stat(fsys, faulty, upath) = "nil"
        THEN [pattern |-> upath \o <<"/*">>, err |-> "nil"]
        ELSE [pattern |-> <<>>, err |-> "Could not find specified log path"]

\* ------------------------------------------------------------------ regexp
\* regexp.QuoteMeta: a backslash before every metacharacter.
QuoteMeta(s) == [i \in 1..Len(s) |-> IF s[i] = "." THEN "\\." ELSE s[i]]

DigitTokens == {"0", "1", "7", "12"}

Drop(s, k) == SubSeq(s, k + 1, Len(s))

\* Whether a prefix of s matches the expression re (re has no leading "^").
RECURSIVE MatchHere(_, _)
MatchHere(re, s) ==
    IF re = <<>> THEN TRUE
    ELSE IF Head(re) = "[0-9]*"
    THEN \E k \in 0..Len(s) :
            /\ \A i \in 1..k : s[i] \in DigitTokens
            /\ MatchHere(Tail(re), Drop(s, k))
    ELSE IF Head(re) = ".+"
    THEN \E k \in 1..Len(s) : MatchHere(Tail(re), Drop(s, k))
    ELSE IF Head(re) = "."
    THEN s # <<>> /\ MatchHere(Tail(re), Tail(s))
    ELSE IF Head(re) = "\\."
    THEN s # <<>> /\ Head(s) = "." /\ MatchHere(Tail(re), Tail(s))
    ELSE s # <<>> /\ Head(s) = Head(re) /\ MatchHere(Tail(re), Tail(s))

\* regexp.Match: the expression matches somewhere in s, at the start of s
\* when it begins with "^".
RegexpMatch(re, s) ==
    IF re # <<>> /\ Head(re) = "^"
    THEN MatchHere(Tail(re), s)
    ELSE \E k \in 0..Len(s) : MatchHere(re, Drop(s, k))

\* ------------------------------------------------------ determineFilterFunc
\* The filter is nil, or the closure over the expression re.
NilFilter == [isNil |-> TRUE, re |-> <<>>]

determineFilterFunc(pod, containerName, legacy) ==
    IF containerName = <<>> THEN NilFilter
    ELSE IF legacy
    THEN [isNil |-> FALSE,
          re |-> <<"^", "/var/log/containers/">> \o pod.Name \o <<"_">>
                 \o pod.Namespace \o <<"_">> \o containerName
                 \o <<"-", ".+", "\\.", "log">>]
    ELSE LET uid == IF ConfigHashKey \in DOMAIN pod.Annotations
                    THEN pod.Annotations[ConfigHashKey]
                    ELSE pod.UID
         IN  [isNil |-> FALSE,
              re |-> <<"^", "/var/log/pods/">> \o uid \o <<"/">>
                     \o QuoteMeta(containerName) \o <<"_", "[0-9]*", "\\.", "log">>]

\* ------------------------------------------------------------ configuration
\* config.WatcherConfig: the fields the tailer reads.
ContainerNames == {<<>>, <<"app">>, <<"app", ".", "v2">>}

\* The configurations of the control loop's runs: a watcher of every pod and
\* every container, and a watcher of one container of the selected pods.
Configs ==
    {[LabelSelector |-> <<>>, ContainerName |-> <<>>],
     [LabelSelector |-> <<"app=web">>, ContainerName |-> <<"app">>]}

\* =================================================================== state
VARIABLES
    config,          \* pt.config
    legacyLogPaths,  \* pt.legacyLogPaths
    wg,              \* pt.wg: the counter of the wait group
    startCalls,      \* calls of Start() so far; call l launched goroutine l
    caller,          \* caller[c]: where the c-th call of Stop() stands
    pc,              \* pc[l]: where goroutine l stands in run()
    selector,        \* selector[l]: labelSelector given to NewPodWatcher by l
    podChan,         \* podChan[l]: pods waiting on podWatcher.Pods() of l
    deletedChan,     \* deletedChan[l]: UIDs waiting on podWatcher.DeletedPods()
    watcherMap,      \* watcherMap[l]: the local map of goroutine l
    err,             \* err[l]: the error of the last watcherForPod call of l
    drainLeft,       \* drainLeft[l]: keys the final range loop has yet to visit
    watchers,        \* every tailer.PathWatcher constructed, in order
    fs,              \* the directories that exist under /var/log/pods
    resolved,        \* the last call of the resolver made on its own
    sent             \* the events the pod event sources have offered, in
                     \* order, in the runs that keep track of them

vars ==
    <<config, legacyLogPaths, wg, startCalls, caller, pc, selector, podChan,
      deletedChan, watcherMap, err, drainLeft, watchers, fs, resolved, sent>>

Loops == 1..MaxStarts

Callers == 1..MaxStops

NoWatcher == 0

NoCall == [called |-> FALSE]

\* The value of sent in the runs that keep no track of the events offered.
NotTracked == "not tracked"

Track(log, event) == IF log = NotTracked THEN log ELSE Append(log, event)

EmptyMap == [u \in UIDs |-> NoWatcher]

\* ------------------------------------------------------------ NewPodSetTailer
\* The instance as constructed: no goroutine, no call of Stop(), a zero
\* wait group.
InitTailer ==
    /\ wg = 0
    /\ startCalls = 0
    /\ caller = [c \in Callers |-> "idle"]
    /\ pc = [l \in Loops |-> "none"]
    /\ selector = [l \in Loops |-> <<>>]
    /\ podChan = [l \in Loops |-> <<>>]
    /\ deletedChan = [l \in Loops |-> <<>>]
    /\ watcherMap = [l \in Loops |-> EmptyMap]
    /\ err = [l \in Loops |-> "nil"]
    /\ drainLeft = [l \in Loops |-> {}]
    /\ watchers = <<>>
    /\ resolved = NoCall

\* In legacy mode the program never probes /var/log/pods, and the runs of the
\* loop start with it empty.
Init ==
    /\ InitTailer
    /\ config \in Configs
    /\ legacyLogPaths \in BOOLEAN
    /\ fs \in (IF legacyLogPaths THEN {{}} ELSE SUBSET Dirs)
    /\ sent = NotTracked

\* ------------------------------------------------------------------ watchers
\* tailer.NewPathWatcher; uid and owner record for whom it was made.
NewPathWatcher(pattern, filterFunc, uid, l) ==
    [pattern |-> pattern, filter |-> filterFunc, uid |-> uid, owner |-> l,
     starts |-> 0, stops |-> 0]

WatcherStart(w) == [w EXCEPT !.starts = @ + 1]

WatcherStop(w) == [w EXCEPT !.stops = @ + 1]

Live(w) == w.starts > 0 /\ w.stops = 0

\* ------------------------------------------------------------- watcherForPod
\* herr is the error of handlers.NewLineHandlerFactoryFromConfig.  The error
\* of determineLogPattern is logged and then overwritten by herr.
watcherForPod(l, pod, containerName, fsys, faulty, herr) ==
    LET res == determineLogPattern(pod, legacyLogPaths, fsys, faulty)
        filterFunc == determineFilterFunc(pod, containerName, legacyLogPaths)
    IN  IF herr # "nil"
        THEN [isNil |-> TRUE, err |-> herr]
        ELSE [isNil |-> FALSE, err |-> "nil",
              watcher |-> NewPathWatcher(res.pattern, filterFunc, pod.UID, l)]

HandlerErrors == {"nil", "invalid parser configuration"}

\* The directories determineLogPattern can probe for a pod.
ProbePaths(pod) ==
    {<<"/var/log/pods/">> \o pod.UID}
    \cup (IF ConfigHashKey \in DOMAIN pod.Annotations
          THEN {<<"/var/log/pods/">> \o pod.Annotations[ConfigHashKey]}
          ELSE {})

\* ----------------------------------------------------------------- Start()
\* A Start() that counts the instance once, not every goroutine.
StartAddsOnce ==
    /\ startCalls < MaxStarts
    /\ startCalls' = startCalls + 1
    /\ wg' = (IF wg = 0 THEN 1 ELSE wg)
    /\ pc' = [pc EXCEPT ![startCalls + 1] = "spawned"]
    /\ UNCHANGED <<config, legacyLogPaths, caller, selector, podChan, deletedChan,
                   watcherMap, err, drainLeft, watchers, fs, resolved, sent>>

\* Lines 111-114: wg.Add(1), then the goroutine is launched.
Start ==
    /\ startCalls < MaxStarts
    /\ startCalls' = startCalls + 1
    /\ wg' = wg + 1
    /\ pc' = [pc EXCEPT ![startCalls + 1] = "spawned"]
    /\ UNCHANGED <<config, legacyLogPaths, caller, selector, podChan, deletedChan,
                   watcherMap, err, drainLeft, watchers, fs, resolved, sent>>

\* ------------------------------------------------------------------- run()
\* A selector built without the test for the empty string.
SelectorAlwaysAppended(labelSelector) ==
    labelSelector \o <<",", "k8s-app!=honeycomb-agent">>

\* Lines 59-65: the selector given to the pod event source.
EffectiveSelector(labelSelector) ==
    IF labelSelector = <<>>
    THEN <<"k8s-app!=honeycomb-agent">>
    ELSE labelSelector \o <<",", "k8s-app!=honeycomb-agent">>

\* Lines 58-73: the goroutine builds its pod watcher and its empty map.
RunBegin(l) ==
    /\ pc[l] = "spawned"
    /\ selector' = [selector EXCEPT ![l] = EffectiveSelector(config.LabelSelector)]
    /\ watcherMap' = [watcherMap EXCEPT ![l] = EmptyMap]
    /\ pc' = [pc EXCEPT ![l] = "select"]
    /\ UNCHANGED <<config, legacyLogPaths, wg, startCalls, caller, podChan,
                   deletedChan, err, drainLeft, watchers, fs, resolved, sent>>

\* A pod-added case that leaves the loop on an error instead of continuing.
OnPodAddedReturns(l, pod, faulty, herr) ==
    LET r == watcherForPod(l, pod, config.ContainerName, fs, faulty, herr)
    IN  IF r.err # "nil"
        THEN [watchers |-> watchers, map |-> watcherMap[l], err |-> r.err,
              pc |-> "drain"]
        ELSE [watchers |-> Append(watchers, WatcherStart(r.watcher)),
              map |-> [watcherMap[l] EXCEPT ![pod.UID] = Len(watchers) + 1],
              err |-> "nil", pc |-> "select"]

\* A pod-added case that, for a UID already registered, resolves again and
\* rewrites the pattern and filter of the registered watcher in place.
OnPodAddedReusesWatcher(l, pod, faulty, herr) ==
    LET r == watcherForPod(l, pod, config.ContainerName, fs, faulty, herr)
        old == watcherMap[l][pod.UID]
    IN  IF r.err # "nil"
        THEN [watchers |-> watchers, map |-> watcherMap[l], err |-> r.err,
              pc |-> "select"]
        ELSE IF old # NoWatcher
        THEN [watchers |-> [watchers EXCEPT ![old].pattern = r.watcher.pattern,
                                            ![old].filter = r.watcher.filter],
              map |-> watcherMap[l], err |-> "nil", pc |-> "select"]
        ELSE [watchers |-> Append(watchers, WatcherStart(r.watcher)),
              map |-> [watcherMap[l] EXCEPT ![pod.UID] = Len(watchers) + 1],
              err |-> "nil", pc |-> "select"]

\* A pod-added case that registers the watcher without starting it.
OnPodAddedNoStart(l, pod, faulty, herr) ==
    LET r == watcherForPod(l, pod, config.ContainerName, fs, faulty, herr)
    IN  IF r.err # "nil"
        THEN [watchers |-> watchers, map |-> watcherMap[l], err |-> r.err,
              pc |-> "select"]
        ELSE [watchers |-> Append(watchers, r.watcher),
              map |-> [watcherMap[l] EXCEPT ![pod.UID] = Len(watchers) + 1],
              err |-> "nil", pc |-> "select"]

\* Lines 78-92: what the pod-added case does to the goroutine's state.
OnPodAdded(l, pod, faulty, herr) ==
    LET r == watcherForPod(l, pod, config.ContainerName, fs, faulty, herr)
    IN  IF r.err # "nil"
        THEN [watchers |-> watchers, map |-> watcherMap[l], err |-> r.err,
              pc |-> "select"]
        ELSE [watchers |-> Append(watchers, WatcherStart(r.watcher)),
              map |-> [watcherMap[l] EXCEPT ![pod.UID] = Len(watchers) + 1],
              err |-> "nil", pc |-> "select"]

\* A loop that still takes pods from Pods() after it has left the select.
PodAddedAfterStop(l) ==
    /\ pc[l] \in {"select", "drain"}
    /\ podChan[l] # <<>>
    /\ \E faulty \in SUBSET ProbePaths(Head(podChan[l])), herr \in HandlerErrors :
         LET n == OnPodAdded(l, Head(podChan[l]), faulty, herr)
         IN  /\ watchers' = n.watchers
             /\ watcherMap' = [watcherMap EXCEPT ![l] = n.map]
             /\ err' = [err EXCEPT ![l] = n.err]
    /\ podChan' = [podChan EXCEPT ![l] = Tail(@)]
    /\ UNCHANGED <<config, legacyLogPaths, wg, startCalls, caller, pc, selector,
                   deletedChan, drainLeft, fs, resolved, sent>>

PodAdded(l) ==
    /\ pc[l] = "select"
    /\ podChan[l] # <<>>
    /\ \E faulty \in SUBSET ProbePaths(Head(podChan[l])), herr \in HandlerErrors :
         LET n == OnPodAdded(l, Head(podChan[l]), faulty, herr)
         IN  /\ watchers' = n.watchers
             /\ watcherMap' = [watcherMap EXCEPT ![l] = n.map]
             /\ err' = [err EXCEPT ![l] = n.err]
             /\ pc' = [pc EXCEPT ![l] = n.pc]
    /\ podChan' = [podChan EXCEPT ![l] = Tail(@)]
    /\ UNCHANGED <<config, legacyLogPaths, wg, startCalls, caller, selector,
                   deletedChan, drainLeft, fs, resolved, sent>>

\* A pod-deleted case without the ok test: Stop() on a nil watcher panics.
OnPodDeletedUnchecked(l, uid) ==
    IF watcherMap[l][uid] # NoWatcher
    THEN [watchers |-> [watchers EXCEPT ![watcherMap[l][uid]] = WatcherStop(@)],
          map |-> [watcherMap[l] EXCEPT ![uid] = NoWatcher], pc |-> "select"]
    ELSE [watchers |-> watchers, map |-> watcherMap[l], pc |-> "panicked"]

\* A pod-deleted case that stops the watcher and keeps its registry entry.
OnPodDeletedKeepsEntry(l, uid) ==
    IF watcherMap[l][uid] # NoWatcher
    THEN [watchers |-> [watchers EXCEPT ![watcherMap[l][uid]] = WatcherStop(@)],
          map |-> watcherMap[l], pc |-> "select"]
    ELSE [watchers |-> watchers, map |-> watcherMap[l], pc |-> "select"]

\* Lines 93-100: what the pod-deleted case does to the goroutine's state.
OnPodDeleted(l, uid) ==
    IF watcherMap[l][uid] # NoWatcher
    THEN [watchers |-> [watchers EXCEPT ![watcherMap[l][uid]] = WatcherStop(@)],
          map |-> [watcherMap[l] EXCEPT ![uid] = NoWatcher], pc |-> "select"]
    ELSE [watchers |-> watchers, map |-> watcherMap[l], pc |-> "select"]

PodDeleted(l) ==
    /\ pc[l] = "select"
    /\ deletedChan[l] # <<>>
    /\ LET n == OnPodDeleted(l, Head(deletedChan[l]))
       IN  /\ watchers' = n.watchers
           /\ watcherMap' = [watcherMap EXCEPT ![l] = n.map]
           /\ pc' = [pc EXCEPT ![l] = n.pc]
    /\ deletedChan' = [deletedChan EXCEPT ![l] = Tail(@)]
    /\ UNCHANGED <<config, legacyLogPaths, wg, startCalls, caller, selector,
                   podChan, err, drainLeft, fs, resolved, sent>>

\* A receive whose break leaves the select only, not the loop.
RecvStopKeepsLooping(l, c) ==
    /\ pc[l] = "select"
    /\ caller[c] = "send"
    /\ caller' = [caller EXCEPT ![c] = "wait"]
    /\ UNCHANGED <<config, legacyLogPaths, wg, startCalls, pc, selector, podChan,
                   deletedChan, watcherMap, err, drainLeft, watchers, fs, resolved, sent>>

\* Lines 101-102 with line 117: the unbuffered send of the c-th Stop() meets
\* the receive of goroutine l, which leaves the loop.
RecvStop(l, c) ==
    /\ pc[l] = "select"
    /\ caller[c] = "send"
    /\ caller' = [caller EXCEPT ![c] = "wait"]
    /\ pc' = [pc EXCEPT ![l] = "drain"]
    /\ drainLeft' = [drainLeft EXCEPT ![l] = {u \in UIDs : watcherMap[l][u] # NoWatcher}]
    /\ UNCHANGED <<config, legacyLogPaths, wg, startCalls, selector, podChan,
                   deletedChan, watcherMap, err, watchers, fs, resolved, sent>>

\* Lines 106-108: one iteration of the range loop.
DrainStep(l) ==
    /\ pc[l] = "drain"
    /\ \E key \in drainLeft[l] :
         /\ watchers' = [watchers EXCEPT ![watcherMap[l][key]] = WatcherStop(@)]
         /\ drainLeft' = [drainLeft EXCEPT ![l] = @ \ {key}]
    /\ UNCHANGED <<config, legacyLogPaths, wg, startCalls, caller, pc, selector,
                   podChan, deletedChan, watcherMap, err, fs, resolved, sent>>

\* A goroutine that signals completion without waiting for the range loop.
RunReturnEarly(l) ==
    /\ pc[l] = "drain"
    /\ pc' = [pc EXCEPT ![l] = "done"]
    /\ wg' = wg - 1
    /\ caller' = [c \in Callers |->
                    IF wg - 1 = 0 /\ caller[c] = "blocked" THEN "returned"
                    ELSE caller[c]]
    /\ UNCHANGED <<config, legacyLogPaths, startCalls, selector, podChan,
                   deletedChan, watcherMap, err, drainLeft, watchers, fs,
                   resolved, sent>>

\* A goroutine that returns without the deferred wg.Done().
RunReturnNoDone(l) ==
    /\ pc[l] = "drain"
    /\ drainLeft[l] = {}
    /\ pc' = [pc EXCEPT ![l] = "done"]
    /\ UNCHANGED <<config, legacyLogPaths, wg, startCalls, caller, selector,
                   podChan, deletedChan, watcherMap, err, drainLeft, watchers,
                   fs, resolved, sent>>

\* Line 58 (deferred) at line 109: wg.Done(); a counter of zero releases
\* every caller blocked in wg.Wait().
RunReturn(l) ==
    /\ pc[l] = "drain"
    /\ drainLeft[l] = {}
    /\ pc' = [pc EXCEPT ![l] = "done"]
    /\ wg' = wg - 1
    /\ caller' = [c \in Callers |->
                    IF wg - 1 = 0 /\ caller[c] = "blocked" THEN "returned"
                    ELSE caller[c]]
    /\ UNCHANGED <<config, legacyLogPaths, startCalls, selector, podChan,
                   deletedChan, watcherMap, err, drainLeft, watchers, fs,
                   resolved, sent>>

\* ------------------------------------------------------------------ Stop()
\* A Stop() whose send completes without a receiver, as on a buffered
\* channel.
StopCallBuffered(c) ==
    /\ caller[c] = "idle"
    /\ \A d \in Callers : d < c => caller[d] # "idle"
    /\ caller' = [caller EXCEPT ![c] = "wait"]
    /\ UNCHANGED <<config, legacyLogPaths, wg, startCalls, pc, selector, podChan,
                   deletedChan, watcherMap, err, drainLeft, watchers, fs,
                   resolved, sent>>

\* Line 117: the call begins and offers its value on pt.stop.
StopCall(c) ==
    /\ caller[c] = "idle"
    /\ \A d \in Callers : d < c => caller[d] # "idle"
    /\ caller' = [caller EXCEPT ![c] = "send"]
    /\ UNCHANGED <<config, legacyLogPaths, wg, startCalls, pc, selector, podChan,
                   deletedChan, watcherMap, err, drainLeft, watchers, fs,
                   resolved, sent>>

\* Line 118: wg.Wait() returns at once on a zero counter, else blocks.
StopWait(c) ==
    /\ caller[c] = "wait"
    /\ caller' = [caller EXCEPT ![c] = IF wg = 0 THEN "returned" ELSE "blocked"]
    /\ UNCHANGED <<config, legacyLogPaths, wg, startCalls, pc, selector, podChan,
                   deletedChan, watcherMap, err, drainLeft, watchers, fs,
                   resolved, sent>>

\* ------------------------------------------------------------- environment
\* The pod event source of goroutine l offers a pod on Pods(); each stream
\* has one sender, so one value at a time waits on it.
EmitAdded(l, pod) ==
    /\ pc[l] \in {"select", "drain"}
    /\ Len(watchers) + Cardinality({k \in Loops : podChan[k] # <<>>}) < MaxWatchers
    /\ podChan[l] = <<>>
    /\ podChan' = [podChan EXCEPT ![l] = Append(@, pod)]
    /\ sent' = Track(sent, [kind |-> "added", loop |-> l, uid |-> pod.UID])
    /\ UNCHANGED <<config, legacyLogPaths, wg, startCalls, caller, pc, selector,
                   deletedChan, watcherMap, err, drainLeft, watchers, fs, resolved>>

\* The pod event source of goroutine l offers a UID on DeletedPods().
EmitDeleted(l, uid) ==
    /\ pc[l] \in {"select", "drain"}
    /\ deletedChan[l] = <<>>
    /\ deletedChan' = [deletedChan EXCEPT ![l] = Append(@, uid)]
    /\ sent' = Track(sent, [kind |-> "deleted", loop |-> l, uid |-> uid])
    /\ UNCHANGED <<config, legacyLogPaths, wg, startCalls, caller, pc, selector,
                   podChan, watcherMap, err, drainLeft, watchers, fs, resolved>>

\* The kubelet creates or removes a log directory.  In legacy mode the
\* program never probes /var/log/pods, and the model leaves it as it is.
FsChange(d) ==
    /\ ~legacyLogPaths
    /\ fs' = IF d \in fs THEN fs \ {d} ELSE fs \cup {d}
    /\ UNCHANGED <<config, legacyLogPaths, wg, startCalls, caller, pc, selector,
                   podChan, deletedChan, watcherMap, err, drainLeft, watchers,
                   resolved, sent>>

\* --------------------------------------------------- the resolver on its own
\* Lines 179 and 190: the pattern and the filter watcherForPod computes for
\* a pod, with the state of the probed directories it was computed from.
Resolve(pod, faulty) ==
    /\ resolved' =
         [called |-> TRUE, pod |-> pod, faulty |-> faulty,
          res |-> determineLogPattern(pod, legacyLogPaths, fs, faulty),
          filter |-> determineFilterFunc(pod, config.ContainerName, legacyLogPaths)]
    /\ UNCHANGED <<config, legacyLogPaths, wg, startCalls, caller, pc, selector,
                   podChan, deletedChan, watcherMap, err, drainLeft, watchers, fs,
                   sent>>

InitResolve ==
    /\ InitTailer
    /\ config \in [LabelSelector : {<<>>}, ContainerName : ContainerNames]
    /\ legacyLogPaths \in BOOLEAN
    /\ fs \in SUBSET Dirs
    /\ sent = NotTracked

NextResolve == \E pod \in Pods : \E faulty \in SUBSET ProbePaths(pod) : Resolve(pod, faulty)

SpecResolve == InitResolve /\ [][NextResolve]_vars

\* The loop of one goroutine, and the pod event sources.
Loop ==
    \/ \E l \in Loops : RunBegin(l)
    \/ \E l \in Loops : PodAdded(l)
    \/ \E l \in Loops : PodDeleted(l)
    \/ \E l \in Loops, c \in Callers : RecvStop(l, c)
    \/ \E l \in Loops : DrainStep(l)
    \/ \E l \in Loops : RunReturn(l)
    \/ \E c \in Callers : StopWait(c)
    \/ \E l \in Loops, pod \in Pods : EmitAdded(l, pod)
    \/ \E l \in Loops, uid \in UIDs : EmitDeleted(l, uid)

\* Start() and Stop() as their contract allows them: once per instance.
StartOnce == startCalls = 0 /\ Start

StopOnce == StopCall(1)

Next ==
    \/ StartOnce
    \/ StopOnce
    \/ Loop
    \/ \E d \in Dirs : FsChange(d)

Spec == Init /\ [][Next]_vars

\* The scheduler runs a goroutine that can take a step; select picks among
\* its ready cases at random, so a stop case that stays ready is taken; every
\* watcher Stop() and every os.Stat returns.  The event source and the
\* callers of Start() and Stop() are under no obligation.
Fairness ==
    /\ WF_vars(\E l \in Loops : RunBegin(l))
    /\ WF_vars(\E l \in Loops, c \in Callers : RecvStop(l, c))
    /\ WF_vars(\E l \in Loops : DrainStep(l))
    /\ WF_vars(\E l \in Loops : RunReturn(l))
    /\ WF_vars(\E c \in Callers : StopWait(c))

SpecLive == Init /\ [][Next]_vars /\ Fairness

\* One configuration on a file system that holds every directory and does
\* not change, for the runs that call Start() or Stop() too often.
InitFixed ==
    /\ Init
    /\ config.ContainerName = <<"app">>
    /\ ~legacyLogPaths
    /\ fs = Dirs

\* Stop() called any number of times around at most one Start().
NextStops ==
    \/ StartOnce
    \/ \E c \in Callers : StopCall(c)
    \/ Loop

SpecStops == InitFixed /\ [][NextStops]_vars

\* Start() called any number of times around at most one Stop(), while pods
\* are added and none is deleted.
NextStarts ==
    \/ Start
    \/ StopOnce
    \/ \E l \in Loops : RunBegin(l)
    \/ \E l \in Loops : PodAdded(l)
    \/ \E l \in Loops, c \in Callers : RecvStop(l, c)
    \/ \E l \in Loops : DrainStep(l)
    \/ \E l \in Loops : RunReturn(l)
    \/ \E c \in Callers : StopWait(c)
    \/ \E l \in Loops, pod \in Pods : EmitAdded(l, pod)

SpecStarts == InitFixed /\ [][NextStarts]_vars

\* The event source offers one pod on Pods() and then the UID of that pod on
\* DeletedPods(), and nothing else; sent keeps the order.
InitOrder ==
    /\ InitTailer
    /\ config \in Configs
    /\ legacyLogPaths \in BOOLEAN
    /\ fs \in (IF legacyLogPaths THEN {{}} ELSE SUBSET Dirs)
    /\ sent = <<>>

EmitAddedFirst(l, pod) == sent = <<>> /\ EmitAdded(l, pod)

EmitDeletedNext(l, uid) ==
    /\ sent = <<[kind |-> "added", loop |-> l, uid |-> uid]>>
    /\ EmitDeleted(l, uid)

NextOrder ==
    \/ StartOnce
    \/ StopOnce
    \/ \E l \in Loops : RunBegin(l)
    \/ \E l \in Loops : PodAdded(l)
    \/ \E l \in Loops : PodDeleted(l)
    \/ \E l \in Loops, c \in Callers : RecvStop(l, c)
    \/ \E l \in Loops : DrainStep(l)
    \/ \E l \in Loops : RunReturn(l)
    \/ \E c \in Callers : StopWait(c)
    \/ \E l \in Loops, pod \in Pods : EmitAddedFirst(l, pod)
    \/ \E l \in Loops, uid \in UIDs : EmitDeletedNext(l, uid)

SpecOrder == InitOrder /\ [][NextOrder]_vars

\* ================================================================== claims
WatcherIds == 1..Len(watchers)

\* Goroutine l takes a pod from Pods() in this step.
AddStep(l) == pc[l] = "select" /\ podChan[l] # <<>> /\ podChan'[l] = Tail(podChan[l])

\* Goroutine l takes a UID from DeletedPods() in this step.
DeleteStep(l) ==
    pc[l] = "select" /\ deletedChan[l] # <<>> /\ deletedChan'[l] = Tail(deletedChan[l])

PastSend == {c \in Callers : caller[c] \in {"wait", "blocked", "returned"}}

LeftLoop == {l \in Loops : pc[l] \in {"drain", "done"}}

\* C1: at every point there is at most one watcher per pod UID that has been
\* started and not yet stopped, also after a second pod-added event for a UID
\* that is already registered.
C1_OneLiveWatcherPerUID ==
    \A u \in UIDs :
        Cardinality({i \in WatcherIds : watchers[i].uid = u /\ Live(watchers[i])}) <= 1

\* C2: when Stop() has returned after one Start(), the control loop has
\* exited and every watcher the instance started has been stopped.
C2_StopLeavesNoWatcherRunning ==
    caller[1] = "returned" =>
        /\ pc[1] = "done"
        /\ \A i \in WatcherIds : watchers[i].starts > 0 => watchers[i].stops > 0

\* C3: a pod-added event for a pod whose log path cannot be resolved (not
\* legacy mode, neither the config-hash directory nor the UID directory
\* exists) constructs and starts no watcher, leaves the registry unchanged,
\* and the loop goes on.
C3_UnresolvedPodIsSkipped ==
    [][\A l \in Loops :
          (/\ AddStep(l)
           /\ ~legacyLogPaths
           /\ ProbePaths(Head(podChan[l])) \cap fs = {})
          => /\ watchers' = watchers
             /\ watcherMap' = watcherMap
             /\ pc'[l] = "select"]_vars

\* C4: a pod-deleted event for a UID with no entry in the registry stops no
\* watcher, leaves the registry and every watcher unchanged, and the loop
\* goes on.
C4_DeleteOfAbsentUIDIsNoOp ==
    [][\A l \in Loops :
          (DeleteStep(l) /\ watcherMap[l][Head(deletedChan[l])] = NoWatcher)
          => /\ watchers' = watchers
             /\ watcherMap' = watcherMap
             /\ pc'[l] = "select"]_vars

\* A deletion of an unregistered UID is about to be handled while the other
\* pod has a live registered watcher.
C4_Witness ==
    /\ pc[1] = "select"
    /\ deletedChan[1] # <<>>
    /\ watcherMap[1][Head(deletedChan[1])] = NoWatcher
    /\ \E u \in UIDs : /\ watcherMap[1][u] # NoWatcher
                       /\ Live(watchers[watcherMap[1][u]])

\* C5: determineLogPattern returns the result of the first rule that
\* matches: legacy -> /var/log/containers/<name>_<namespace>_*.log whatever
\* the file system holds; else annotation present and hash directory exists
\* -> /var/log/pods/<hash>/*; else UID directory exists ->
\* /var/log/pods/<uid>/*; else failure.  A probe that errors counts as a
\* directory that does not exist.
C5_FirstMatchingRule ==
    resolved.called =>
        LET pod == resolved.pod
            found(d) == d \in fs /\ d \notin resolved.faulty
            hasHash == ConfigHashKey \in DOMAIN pod.Annotations
            hashDir == <<"/var/log/pods/", pod.Annotations[ConfigHashKey][1]>>
            uidDir == <<"/var/log/pods/", pod.UID[1]>>
        IN  IF legacyLogPaths
            THEN /\ resolved.res.err = "nil"
                 /\ resolved.res.pattern =
                      <<"/var/log/containers/", pod.Name[1], "_", pod.Namespace[1],
                        "_*", ".", "log">>
            ELSE IF hasHash /\ found(hashDir)
            THEN /\ resolved.res.err = "nil"
                 /\ resolved.res.pattern = Append(hashDir, "/*")
            ELSE IF found(uidDir)
            THEN /\ resolved.res.err = "nil"
                 /\ resolved.res.pattern = Append(uidDir, "/*")
            ELSE resolved.res.err # "nil"

\* The probe of an existing hash directory errors and the resolver falls
\* back to the UID directory.
C5_Witness ==
    /\ resolved.called
    /\ ~legacyLogPaths
    /\ ConfigHashKey \in DOMAIN resolved.pod.Annotations
    /\ <<"/var/log/pods/", "abc123">> \in fs \cap resolved.faulty
    /\ resolved.res.pattern = <<"/var/log/pods/", "uid-2", "/*">>

\* C6: with a container name configured and the path resolved in new
\* (non-legacy) mode to /var/log/pods/<D>/*, the filter accepts
\* /var/log/pods/<D>/<container>_<n>.log, also when the pod carries a
\* config-hash annotation and the resolver fell back to the UID directory.
C6_FilterAnchoredToResolvedDir ==
    \A i \in WatcherIds :
        LET w == watchers[i]
        IN  (/\ ~legacyLogPaths
             /\ config.ContainerName # <<>>
             /\ w.pattern # <<>>)
            => /\ ~w.filter.isNil
               /\ \A n \in DigitTokens :
                     RegexpMatch(w.filter.re,
                                 SubSeq(w.pattern, 1, Len(w.pattern) - 1) \o <<"/">>
                                 \o config.ContainerName \o <<"_", n, ".", "log">>)

\* C7: the label selector given to the pod event source ends with the
\* clause k8s-app!=honeycomb-agent: it is that clause alone for an empty
\* configured selector, and the configured selector followed by
\* ",k8s-app!=honeycomb-agent" otherwise.
C7_SelectorExcludesAgent ==
    \A l \in Loops :
        pc[l] \in {"select", "drain", "done"} =>
            /\ selector[l] # <<>>
            /\ selector[l][Len(selector[l])] = "k8s-app!=honeycomb-agent"
            /\ config.LabelSelector = <<>> => Len(selector[l]) = 1
            /\ config.LabelSelector # <<>> =>
                 /\ Len(selector[l]) = Len(config.LabelSelector) + 2
                 /\ SubSeq(selector[l], 1, Len(config.LabelSelector)) = config.LabelSelector
                 /\ selector[l][Len(selector[l]) - 1] = ","

\* The loop runs on an event source started with a configured selector.
C7_Witness ==
    /\ pc[1] = "select"
    /\ config.LabelSelector = <<"app=web">>
    /\ selector[1] = <<"app=web", ",", "k8s-app!=honeycomb-agent">>

\* C8: when the construction of the line-handler pipeline fails for a
\* pod-added event, no watcher is started, the registry is unchanged, and the
\* loop stays in its select, where later events are processed.
C8_HandlerFailureIsSkipped ==
    [][\A l \in Loops :
          (AddStep(l) /\ err'[l] # "nil")
          => /\ watchers' = watchers
             /\ watcherMap' = watcherMap
             /\ pc'[l] = "select"]_vars

\* The last pod-added event failed in the pipeline construction, next to a
\* live registered watcher, and a deletion waits to be processed.
C8_Witness ==
    /\ err[1] # "nil"
    /\ pc[1] = "select"
    /\ deletedChan[1] # <<>>
    /\ \E u \in UIDs : /\ watcherMap[1][u] # NoWatcher
                       /\ Live(watchers[watcherMap[1][u]])

\* C9: the shutdown signal is one-shot: only one call of Stop() gets past
\* its send on pt.stop; once a Stop() has returned the loop is gone, and
\* every other call of Stop() stays blocked in its send.
C9_StopIsOneShot ==
    /\ Cardinality(PastSend) <= 1
    /\ \A c \in Callers :
          caller[c] = "returned" =>
              /\ pc[1] = "done"
              /\ \A d \in Callers \ {c} : caller[d] \in {"idle", "send"}

\* A first Stop() has returned and a second one is blocked in its send.
C9_Witness ==
    /\ caller[1] = "returned"
    /\ caller[2] = "send"
    /\ \A l \in Loops : pc[l] \in {"none", "done"}

C12_DeletionHandledAfterAddition ==
    \A u \in UIDs :
        sent = <<[kind |-> "added", loop |-> 1, uid |-> u],
                 [kind |-> "deleted", loop |-> 1, uid |-> u]>>
        => /\ podChan[1] # <<>> => deletedChan[1] # <<>>
           /\ (podChan[1] = <<>> /\ deletedChan[1] = <<>>)
                => /\ watcherMap[1][u] = NoWatcher
                   /\ \A i \in WatcherIds : watchers[i].uid = u => watchers[i].stops > 0

\* C13: on shutdown the loop stops every watcher still in the registry, one
\* at a time, and the goroutine signals completion (wg.Done) only after the
\* last of those Stop() calls has returned.
C13_DrainBeforeDone ==
    [][/\ Cardinality({i \in WatcherIds : watchers'[i].stops # watchers[i].stops}) <= 1
       /\ \A l \in Loops :
            (pc[l] # "done" /\ pc'[l] = "done")
            => /\ wg' = wg - 1
               /\ pc[l] = "drain"
               /\ \A u \in UIDs :
                     watcherMap[l][u] # NoWatcher
                     => watchers[watcherMap[l][u]].stops > 0]_vars

\* The goroutine has returned after stopping the watchers of both pods,
\* which the registry still held at shutdown.
C13_Witness ==
    /\ pc[1] = "done"
    /\ wg = 0
    /\ \A u \in UIDs : /\ watcherMap[1][u] # NoWatcher
                       /\ watchers[watcherMap[1][u]].stops > 0

\* C14: the pattern and filter of a watcher are computed once, from the
\* filesystem as it is while the pod-added event is handled; no later step
\* changes them, a change of the filesystem touches neither the watchers nor
\* the registry, and watchers are created, replaced or stopped only by a
\* step that handles an event or by the shutdown drain.
C14_ResolvedOnceAtAdd ==
    [][/\ Len(watchers') >= Len(watchers)
       /\ \A i \in WatcherIds :
            /\ watchers'[i].pattern = watchers[i].pattern
            /\ watchers'[i].filter = watchers[i].filter
            /\ watchers'[i].uid = watchers[i].uid
       /\ fs' # fs => (watchers' = watchers /\ watcherMap' = watcherMap)
       /\ (watchers' # watchers \/ watcherMap' # watcherMap)
            => \E l \in Loops : AddStep(l) \/ DeleteStep(l) \/ pc[l] = "drain"
       /\ Len(watchers') > Len(watchers)
            => /\ Len(watchers') = Len(watchers) + 1
               /\ \E l \in Loops :
                    /\ AddStep(l)
                    /\ LET pod == Head(podChan[l])
                           w == watchers'[Len(watchers')]
                       IN  /\ w.uid = pod.UID
                           /\ w.filter = determineFilterFunc(pod, config.ContainerName,
                                                             legacyLogPaths)
                           /\ \E faulty \in SUBSET ProbePaths(pod) :
                                w.pattern = determineLogPattern(pod, legacyLogPaths,
                                                                fs, faulty).pattern]_vars

\* A registered, running watcher keeps a pattern that resolution would no
\* longer produce from the filesystem as it is now.
C14_Witness ==
    \E u \in UIDs :
        /\ watcherMap[1][u] # NoWatcher
        /\ Live(watchers[watcherMap[1][u]])
        /\ \A faulty \in SUBSET ProbePaths(CHOOSE p \in Pods : p.UID = u) :
             watchers[watcherMap[1][u]].pattern #
               determineLogPattern(CHOOSE p \in Pods : p.UID = u,
                                   legacyLogPaths, fs, faulty).pattern

\* C15: after one Start() and one Stop(), with every watcher Stop() and
\* every filesystem probe returning, the Stop() call eventually returns,
\* whatever events are pending or still arriving.
C15_StopEventuallyReturns ==
    (startCalls = 1 /\ caller[1] = "send") ~> (caller[1] = "returned")

\* Stop() has returned after one Start() while events still wait on both
\* streams of the event source.
C15_Witness ==
    /\ startCalls = 1
    /\ caller[1] = "returned"
    /\ podChan[1] # <<>>
    /\ deletedChan[1] # <<>>

\* C16: no watcher has Stop() called on it more than once and none has
\* Stop() called before its Start(); a watcher stopped while its loop still
\* selects (by a pod-deleted event) is no longer in the registry, so the
\* shutdown drain cannot stop it again.
C16_StoppedAtMostOnceAfterStart ==
    \A i \in WatcherIds :
        /\ watchers[i].stops <= 1
        /\ watchers[i].stops > 0 => watchers[i].starts > 0
        /\ (watchers[i].stops > 0 /\ pc[watchers[i].owner] = "select")
             => \A u \in UIDs : watcherMap[watchers[i].owner][u] # i

\* The goroutine has returned; one watcher was stopped by a pod-deleted
\* event and left the registry, another was stopped by the drain.
C16_Witness ==
    /\ pc[1] = "done"
    /\ \E i, j \in WatcherIds :
         /\ watchers[i].stops = 1
         /\ \A u \in UIDs : watcherMap[1][u] # i
         /\ watchers[j].stops = 1
         /\ watcherMap[1][watchers[j].uid] = j

\* C17: once the stop signal has been received (the sender of Stop() is past
\* its send), the loop takes no further value from Pods() or DeletedPods(),
\* constructs and starts no watcher and leaves the registry as it is, even
\* while events wait on the event source.
C17_NoEventAfterStopSignal ==
    [][PastSend # {}
       => /\ Len(watchers') = Len(watchers)
          /\ \A i \in WatcherIds : watchers'[i].starts = watchers[i].starts
          /\ \A l \in Loops :
               /\ Len(podChan'[l]) >= Len(podChan[l])
               /\ Len(deletedChan'[l]) >= Len(deletedChan[l])
               /\ watcherMap'[l] = watcherMap[l]
               /\ err'[l] = err[l]]_vars

\* The goroutine has returned without ever constructing a watcher, while a
\* pod still waits on Pods().
C17_Witness ==
    /\ pc[1] = "done"
    /\ podChan[1] # <<>>
    /\ Len(watchers) = 0

\* C18: as long as Start() has never been called, no Stop() call gets past
\* its send on the unbuffered stop channel: it neither reaches wg.Wait() nor
\* returns, because no goroutine exists to receive.
C18_StopWithoutStartBlocks ==
    startCalls = 0 =>
        /\ \A c \in Callers : caller[c] \in {"idle", "send"}
        /\ \A l \in Loops : pc[l] \notin {"select", "drain", "done"}

\* Every Stop() call is stuck in its send on an instance never started.
C18_Witness ==
    /\ startCalls = 0
    /\ \A c \in Callers : caller[c] = "send"

====
